---- MODULE Spec2Model ----
(***************************************************************************)
(* Model of the command-line tools of the repository:                      *)
(*   scanner.py                  - recursive metadata scan written as JSON *)
(*   clean_pycache.py            - recursive removal of __pycache__        *)
(*   directory_tree_to_md.py,                                              *)
(*   ascii_directory_tree_to_md.py - choice of the default output path     *)
(*                                                                         *)
(* A file name is a sequence of one-character strings, a path a sequence   *)
(* of names.  A pathlib.Path value is [abs, parts].                        *)
(***************************************************************************)
EXTENDS Integers, Sequences, FiniteSets, TLC

VARIABLES
    tree,         \* the file system: absolute path -> lstat data of the entry
    host,         \* [atime_updates, birthtime]: properties of the host OS
    args,         \* parsed command line of scanner.py, and the invocation directory
    pc,           \* position of main()
    root,         \* main(): root
    output_path,  \* main(): output_path
    results,      \* main(): results
    log,          \* kinds of messages logged by the current run
    exit_code,    \* exit status of the current run: None while running, else <<status>>
    opened,       \* output files opened for writing by the current run
    run,          \* number of invocations started
    history,      \* items of the completed runs, in order
    ctree,        \* clean_pycache: path relative to the root -> "dir" | "file"
    cpc,          \* clean_pycache: position
    clean_root,   \* clean_pycache: root_dir
    dry_run,      \* clean_pycache: dry_run
    stack,        \* clean_pycache: directories rglob still has to visit
    pycache_folders_found,
    pycache_folders_deleted,
    rmtree_failed,\* clean_pycache: some shutil.rmtree raised OSError in this call
    returned,     \* clean_pycache: the last completed call, or None
    tree0,        \* clean_pycache: the tree when the current call started
    tool,         \* output-path model: which tool is invoked
    oargs,        \* output-path model: [cwd, directory, output]
    opath         \* output-path model: the path handed to open()

vars == <<tree, host, args, pc, root, output_path, results, log,
          exit_code, opened, run, history, ctree, cpc, clean_root, dry_run, stack,
          pycache_folders_found, pycache_folders_deleted, rmtree_failed,
          returned, tree0, tool, oargs, opath>>

scanVars == <<tree, host, args, pc, root, output_path, results, log,
              exit_code, opened, run, history>>
cleanVars == <<ctree, cpc, clean_root, dry_run, stack, pycache_folders_found,
               pycache_folders_deleted, rmtree_failed, returned, tree0>>
outVars == <<tool, oargs, opath>>

\* Python's None; an Optional value is None or a one-element sequence where
\* its values are not sequences themselves.
None == <<>>

(***************************************************************************)
(* Bounds                                                                  *)
(***************************************************************************)
MaxEntries == 2       \* entries created below the scanned root
MaxRuns == 2          \* successive invocations of scanner.py
MaxCacheEntries == 3  \* entries created below the cleaned root

(***************************************************************************)
(* Names and paths                                                         *)
(***************************************************************************)
NameW == <<"w">>
NameR == <<"r">>
NameL == <<"l">>
NameF == <<"f">>
NameM == <<"m">>
NameO == <<"o">>
NameHidden == <<".", "g">>
NameUpper == <<"c", ".", "T">>
NamePycache == <<"__pycache__">>
NameA == <<"a">>

EntryNames == {NameHidden, NameUpper}
CacheNames == {NamePycache, NameA}

RootAbs == <<NameW, NameR>>   \* /w/r
LinkAbs == <<NameW, NameL>>   \* /w/l
FileAbs == <<NameW, NameF>>   \* /w/f

IsPrefix(s, t) == Len(s) <= Len(t) /\ SubSeq(t, 1, Len(s)) = s
Front(s) == SubSeq(s, 1, Len(s) - 1)
Last(s) == s[Len(s)]

RECURSIVE SetToSeq(_)
\* The host's enumeration order of a directory: arbitrary, but a function of
\* the directory's contents.
SetToSeq(S) ==
    IF S = {} THEN <<>>
    ELSE LET x == CHOOSE y \in S : TRUE IN <<x>> \o SetToSeq(S \ {x})

RECURSIVE Flatten(_)
Flatten(ss) == IF ss = <<>> THEN <<>> ELSE Head(ss) \o Flatten(Tail(ss))


(***************************************************************************)
(* The file system: absolute path -> what lstat reports of the entry.      *)
(* It starts as the directories /, /w and /w/r, the symlink /w/l to /w/r   *)
(* and the regular file /w/f; every path outside its domain is missing.    *)
(* Time stamps count half seconds.                                         *)
(***************************************************************************)
Perms == <<"r", "w", "x", "r", "-", "x", "r", "-", "x">>

Entry(fmt, ok, mtime, target, readable) ==
    [fmt |-> fmt, ok |-> ok, mtime |-> mtime, atime |-> 2, ctime |-> 2,
     size |-> 3, target |-> target, readable |-> readable]

DirEntry == Entry("S_IFDIR", TRUE, 2, None, TRUE)

\* The kinds of entry the walk can meet.
Profiles ==
    { DirEntry,
      Entry("S_IFREG", TRUE, 3, None, TRUE),
      Entry("S_IFLNK", TRUE, 2, <<NameM>>, TRUE),   \* dangling symlink
      Entry("S_IFLNK", TRUE, 2, <<NameM>>, FALSE),  \* readlink fails
      Entry("S_IFIFO", TRUE, 99, None, TRUE),       \* mtime outside the calendar
      Entry("S_IFREG", FALSE, 2, None, TRUE) }      \* lstat fails

InitTree ==
    (<<>> :> DirEntry) @@ (<<NameW>> :> DirEntry) @@ (RootAbs :> DirEntry)
    @@ (LinkAbs :> Entry("S_IFLNK", TRUE, 2, RootAbs, TRUE))
    @@ (FileAbs :> Entry("S_IFREG", TRUE, 2, None, TRUE))

\* Path.lstat(): the stat result of the entry itself, or None for OSError.
LStat(t, ap) ==
    IF ap \notin DOMAIN t THEN None
    ELSE IF ~t[ap].ok THEN None
    ELSE [st_mode |-> [fmt |-> t[ap].fmt, perms |-> Perms],
          st_mtime |-> <<t[ap].mtime>>, st_atime |-> <<t[ap].atime>>,
          st_ctime |-> <<t[ap].ctime>>, st_size |-> t[ap].size]

\* Path.resolve(): absolute, with the symlinks on the way followed.
RECURSIVE ResolveFrom(_, _, _)
ResolveFrom(t, done, rest) ==
    IF rest = <<>> THEN done
    ELSE LET next == Append(done, Head(rest))
         IN  IF next \in DOMAIN t /\ t[next].ok /\ t[next].fmt = "S_IFLNK"
             THEN ResolveFrom(t, <<>>, t[next].target \o Tail(rest))
             ELSE ResolveFrom(t, next, Tail(rest))

Resolve(t, cwd, p) ==
    ResolveFrom(t, <<>>, IF p.abs THEN p.parts ELSE cwd \o p.parts)

\* Path.is_dir() follows symlinks; Path.is_symlink() does not.
is_dir(t, ap) ==
    LET st == LStat(t, ResolveFrom(t, <<>>, ap))
    IN  st # None /\ st.st_mode.fmt = "S_IFDIR"

is_symlink(t, ap) ==
    LET st == LStat(t, ap) IN st # None /\ st.st_mode.fmt = "S_IFLNK"

\* path.relative_to(root).parts
RelativeParts(path, rootp) == SubSeq(path, Len(rootp) + 1, Len(path))

\* Path.name and Path.parent of an absolute path.
PathName(ap) == IF ap = <<>> THEN <<>> ELSE Last(ap)
PathParent(ap) == IF ap = <<>> THEN <<>> ELSE Front(ap)

\* Path.as_posix() of a relative path: the names joined by "/".
RECURSIVE as_posix(_)
as_posix(parts) ==
    IF parts = <<>> THEN <<".">>
    ELSE IF Len(parts) = 1 THEN parts[1]
    ELSE parts[1] \o <<"/">> \o as_posix(Tail(parts))

\* Path.as_posix() of an absolute path.
abs_posix(ap) == IF ap = <<>> THEN <<"/">> ELSE <<"/">> \o as_posix(ap)

\* str.startswith(".")
StartsWithDot(name) == name # <<>> /\ Head(name) = "."

\* Path.suffix: from the last dot of the name, unless that dot leads or ends it.
Suffix(name) ==
    LET dots == {i \in 1..Len(name) : name[i] = "."}
        i == IF dots = {} THEN 0 ELSE CHOOSE k \in dots : \A j \in dots : j <= k
    IN  IF 1 < i /\ i < Len(name) THEN SubSeq(name, i, Len(name)) ELSE <<>>

RECURSIVE LStripDots(_)
LStripDots(s) == IF s # <<>> /\ Head(s) = "." THEN LStripDots(Tail(s)) ELSE s

LowerChar(c) == IF c = "T" THEN "t" ELSE c
Lower(s) == [i \in 1..Len(s) |-> LowerChar(s[i])]

(***************************************************************************)
(* scanner.py                                                              *)
(***************************************************************************)
\* The epochs datetime.fromtimestamp can represent (in half seconds).
Representable == 0..50

format_timestamp(epoch) ==
    IF epoch = None THEN None
    ELSE IF epoch[1] \notin Representable THEN None
    ELSE <<epoch[1] \div 2, "Z">>

\* stat.filemode(): the type character followed by the permission bits.
filemode(mode) ==
    <<CASE mode.fmt = "S_IFDIR" -> "d"
        [] mode.fmt = "S_IFREG" -> "-"
        [] mode.fmt = "S_IFLNK" -> "l"
        [] mode.fmt = "S_IFIFO" -> "p"
        [] OTHER -> "?">> \o mode.perms

Classify(mode) ==
    IF mode.fmt = "S_IFDIR" THEN "folder"
    ELSE IF mode.fmt = "S_IFREG" THEN "file"
    ELSE IF mode.fmt = "S_IFLNK" THEN "symlink"
    ELSE "unknown"

\* Variant: size_bytes and extension are set before the test of the type.
TypeFieldsUnconditional(t, kind, st, path) ==
    [size_bytes |-> st.st_size, extension |-> None]
    @@ (IF kind = "symlink" THEN [symlink_target |-> None] ELSE <<>>)

\* str(path.readlink()), or None where readlink raises OSError.
readlink(t, path) == IF t[path].readable THEN abs_posix(t[path].target) ELSE None

TypeFields(t, kind, st, path) ==
    IF kind = "file"
    THEN LET ext == Lower(LStripDots(Suffix(PathName(path))))
         IN  [size_bytes |-> st.st_size,
              extension |-> IF ext = <<>> THEN None ELSE ext]
    ELSE IF kind = "symlink"
    THEN [symlink_target |-> readlink(t, path)]
    ELSE <<>>

get_file_metadata(t, h, path, rootp) ==
    LET st == LStat(t, path) IN
    IF st = None THEN None
    ELSE
      LET kind == Classify(st.st_mode)
          rel_path ==
              IF IsPrefix(rootp, path)
              THEN LET rel == as_posix(RelativeParts(path, rootp))
                   IN  IF rel = <<>> THEN <<".">> ELSE rel
              ELSE abs_posix(path)
          data == [path |-> rel_path,
                   type |-> kind,
                   permissions |-> filemode(st.st_mode),
                   modified_utc |-> format_timestamp(st.st_mtime),
                   accessed_utc |-> format_timestamp(st.st_atime),
                   metadata_changed_utc |-> format_timestamp(st.st_ctime)]
          birth == IF h.birthtime
                   THEN [created_utc |-> format_timestamp(st.st_ctime)]
                   ELSE <<>>
      IN  TypeFields(t, kind, st, path) @@ birth @@ data

\* The entries of the directory `ap`.
Children(t, ap) == {p \in DOMAIN t : Len(p) = Len(ap) + 1 /\ IsPrefix(ap, p)}

IsRealDir(t, ap) ==
    LET st == LStat(t, ap) IN st # None /\ st.st_mode.fmt = "S_IFDIR"

\* Path.rglob("*"): every entry below `dir`, a directory's entries before the
\* entries of its subdirectories; symlinks are not descended into.
RECURSIVE Rglob(_, _)
Rglob(t, dir) ==
    IF ~IsRealDir(t, dir) THEN <<>>
    ELSE LET entries == SetToSeq(Children(t, dir))
             sub == SelectSeq(entries, LAMBDA p : IsRealDir(t, p))
         IN  entries \o Flatten([i \in 1..Len(sub) |-> Rglob(t, sub[i])])

\* Variant: only the entry's own name is tested.
HiddenOwnName(rel) == rel # <<>> /\ StartsWithDot(Last(rel))

\* any(part.startswith(".") for part in path.relative_to(root).parts)
HiddenPath(rel) == \E i \in 1..Len(rel) : StartsWithDot(rel[i])

Skipped(rel, include_hidden) == ~include_hidden /\ HiddenPath(rel)

\* Variant: the first entry whose lstat fails ends the walk.
RECURSIVE WalkItemsAbort(_, _, _, _, _)
WalkItemsAbort(t, h, rootp, paths, include_hidden) ==
    IF paths = <<>> THEN <<>>
    ELSE LET path == Head(paths)
             rest == WalkItemsAbort(t, h, rootp, Tail(paths), include_hidden)
             meta == get_file_metadata(t, h, path, rootp)
         IN  IF Skipped(RelativeParts(path, rootp), include_hidden) THEN rest
             ELSE IF meta = None THEN <<>>
             ELSE <<meta>> \o rest

\* The loop of scan_directory (lines 143-150) over the paths rglob yields.
RECURSIVE WalkItems(_, _, _, _, _)
WalkItems(t, h, rootp, paths, include_hidden) ==
    IF paths = <<>> THEN <<>>
    ELSE LET path == Head(paths)
             rest == WalkItems(t, h, rootp, Tail(paths), include_hidden)
             meta == get_file_metadata(t, h, path, rootp)
         IN  IF Skipped(RelativeParts(path, rootp), include_hidden) THEN rest
             ELSE IF meta = None THEN rest
             ELSE <<meta>> \o rest

\* Variant: the root's record is appended after the walk.
ScanDirectoryRootLast(t, h, rootp, include_hidden) ==
    LET root_meta == get_file_metadata(t, h, rootp, rootp) IN
    IF root_meta = None THEN [exit |-> TRUE, items |-> <<>>]
    ELSE [exit |-> FALSE,
          items |-> WalkItems(t, h, rootp, Rglob(t, rootp), include_hidden)
                    \o <<[root_meta EXCEPT !.path = <<".">>]>>]

\* scan_directory; [exit |-> TRUE] stands for sys.exit(1).
scan_directory(t, h, rootp, include_hidden) ==
    LET root_meta == get_file_metadata(t, h, rootp, rootp) IN
    IF root_meta = None THEN [exit |-> TRUE, items |-> <<>>]
    ELSE [exit |-> FALSE,
          items |-> <<[root_meta EXCEPT !.path = <<".">>]>>
                    \o WalkItems(t, h, rootp, Rglob(t, rootp), include_hidden)]


\* The clock of invocation `n`, in half seconds.
Now(n) == 2 + 2 * n

\* What the walk leaves behind in the file system: nothing, except that a host
\* which records access times refreshes them on the directories rglob reads
\* and on the symlinks whose target readlink reads.
AfterWalk(t, h, rootp, include_hidden, now) ==
    IF ~h.atime_updates THEN t
    ELSE [p \in DOMAIN t |->
            IF \/ IsPrefix(rootp, p) /\ IsRealDir(t, p)
               \/ /\ IsPrefix(rootp, p) /\ p # rootp
                  /\ ~Skipped(RelativeParts(p, rootp), include_hidden)
                  /\ is_symlink(t, p) /\ t[p].readable
            THEN [t[p] EXCEPT !.atime = now]
            ELSE t[p]]

\* Variant: the root is not checked.
RootCheckNone(t, rootp) == "ok"

\* main(): the check of the root (lines 188-193).
RootCheck(t, rootp) ==
    IF is_dir(t, rootp) THEN "ok"
    ELSE IF is_symlink(t, rootp) /\ is_dir(t, ResolveFrom(t, <<>>, rootp))
    THEN "warn"
    ELSE "error"

JsonSuffix == <<".", "j", "s", "o", "n">>

\* Variant: the default output file is named relative to the invocation
\* directory, as the tree tools name theirs.
ScannerOutputPathInCwd(rootp, output) ==
    IF output # None THEN output
    ELSE [abs |-> FALSE, parts |-> <<PathName(rootp) \o JsonSuffix>>]

\* Variant: the default output file is put into the root, not beside it.
ScannerOutputPathInRoot(rootp, output) ==
    IF output # None THEN output
    ELSE [abs |-> TRUE, parts |-> Append(rootp, PathName(rootp) \o JsonSuffix)]

\* main(): default_name and output_path (lines 195-196).
ScannerOutputPath(rootp, output) ==
    IF output # None THEN output
    ELSE [abs |-> TRUE,
          parts |-> Append(PathParent(rootp), PathName(rootp) \o JsonSuffix)]

\* main(): the envelope handed to json.dump (lines 201-208).
Envelope(rootp, now, items) ==
    [scanner_version |-> <<"1", ".", "0">>,
     scanned_path |-> abs_posix(rootp),
     timestamp_utc |-> <<now \div 2, "Z">>,
     items |-> items]

\* The file open(path, "w") acts on.
OpenTarget(t, cwd, path) == Resolve(t, cwd, path)

\* open(path, "w") succeeds only in an existing directory, and not on a directory.
CanOpen(t, ap) ==
    /\ ap # <<>>
    /\ IsRealDir(t, PathParent(ap))
    /\ ~IsRealDir(t, ap)

\* The file system after the output file was created or rewritten.
WriteFile(t, ap, now) ==
    LET file == [Entry("S_IFREG", TRUE, now, None, TRUE)
                    EXCEPT !.atime = now, !.ctime = now]
        parent == PathParent(ap)
    IN  IF ap \in DOMAIN t
        THEN [t EXCEPT ![ap] = file]
        ELSE (ap :> file) @@ [t EXCEPT ![parent].mtime = now, ![parent].ctime = now]

Cwds == {<<NameW>>, RootAbs}
RootDirArgs ==
    { [abs |-> FALSE, parts |-> <<>>],
      [abs |-> FALSE, parts |-> <<NameL>>],
      [abs |-> FALSE, parts |-> <<NameF>>],
      [abs |-> FALSE, parts |-> <<NameM>>] }
OutputArgs == {None, [abs |-> FALSE, parts |-> <<NameO>>]}

\* The variables of the tools a specification does not run.
ScanQuiet ==
    /\ tree = InitTree /\ host = [atime_updates |-> FALSE, birthtime |-> FALSE]
    /\ args = None /\ pc = "off" /\ root = None /\ output_path = None
    /\ results = <<>> /\ log = {} /\ exit_code = None /\ opened = {}
    /\ run = 0 /\ history = <<>>
CleanQuiet ==
    /\ ctree = <<>> /\ cpc = "off" /\ clean_root = <<>> /\ dry_run = FALSE
    /\ stack = <<>>
    /\ pycache_folders_found = 0 /\ pycache_folders_deleted = 0
    /\ rmtree_failed = FALSE /\ returned = <<>> /\ tree0 = <<>>
OutQuiet == tool = "off" /\ oargs = None /\ opath = None

NoArgs == [cwd |-> <<>>, root_dir |-> None, include_hidden |-> FALSE, output |-> None]

InitScan ==
    /\ tree = InitTree
    /\ host \in [atime_updates : BOOLEAN, birthtime : BOOLEAN]
    /\ args = NoArgs
    /\ pc = "setup"
    /\ root = None
    /\ output_path = None
    /\ results = <<>>
    /\ log = {}
    /\ exit_code = None
    /\ opened = {}
    /\ run = 0
    /\ history = <<>>
    /\ CleanQuiet
    /\ OutQuiet

\* Before the tool is invoked: somebody creates an entry below /w/r.
CreateEntry(parent, name, e) ==
    /\ pc = "setup"
    /\ Cardinality(DOMAIN tree) - Cardinality(DOMAIN InitTree) < MaxEntries
    /\ IsPrefix(RootAbs, parent)
    /\ IsRealDir(tree, parent)
    /\ Append(parent, name) \notin DOMAIN tree
    /\ tree' = (Append(parent, name) :> e) @@ tree
    /\ UNCHANGED <<host, args, pc, root, output_path, results, log, exit_code,
                   opened, run, history>>
    /\ UNCHANGED <<cleanVars, outVars>>

\* scanner.py is started in `cwd` with the given command line.
Invoke(cwd, root_dir, include_hidden, output) ==
    /\ pc = "setup"
    /\ args' = [cwd |-> cwd, root_dir |-> root_dir,
                include_hidden |-> include_hidden, output |-> output]
    /\ pc' = "main"
    /\ run' = 1
    /\ UNCHANGED <<tree, host, root, output_path, results, log, exit_code,
                   opened, history>>
    /\ UNCHANGED <<cleanVars, outVars>>

\* The same command line is run again after a run that succeeded.
Rerun ==
    /\ pc = "exited"
    /\ exit_code = <<0>>
    /\ run < MaxRuns
    /\ pc' = "main"
    /\ run' = run + 1
    /\ root' = None
    /\ output_path' = None
    /\ results' = <<>>
    /\ log' = {}
    /\ exit_code' = None
    /\ opened' = {}
    /\ UNCHANGED <<tree, host, args, history>>
    /\ UNCHANGED <<cleanVars, outVars>>

\* main(), lines 187-198.
Validate ==
    /\ pc = "main"
    /\ LET rootp == Resolve(tree, args.cwd, args.root_dir)
           check == RootCheck(tree, rootp)
       IN  /\ root' = rootp
           /\ IF check = "error"
              THEN /\ log' = log \cup {"error: not a directory or symlink"}
                   /\ exit_code' = <<1>>
                   /\ pc' = "exited"
                   /\ output_path' = output_path
              ELSE /\ log' = log \cup
                        (IF check = "warn"
                         THEN {"warning: root is a symlink to a directory"}
                         ELSE {})
                        \cup {"info: scanning"}
                   /\ output_path' = ScannerOutputPath(rootp, args.output)
                   /\ pc' = "scan"
                   /\ exit_code' = exit_code
    /\ UNCHANGED <<tree, host, args, results, opened, run, history>>
    /\ UNCHANGED <<cleanVars, outVars>>

WalkWarnings(t, rootp, include_hidden) ==
    LET seen == {p \in DOMAIN t :
                    /\ IsPrefix(rootp, p) /\ p # rootp
                    /\ ~Skipped(RelativeParts(p, rootp), include_hidden)}
    IN  (IF \E p \in seen : LStat(t, p) = None
         THEN {"warning: cannot lstat"} ELSE {})
        \cup
        (IF \E p \in seen : is_symlink(t, p) /\ ~t[p].readable
         THEN {"warning: cannot read symlink target"} ELSE {})

\* main(), line 199: scan_directory.  The lstat of the root may fail although
\* is_dir() just succeeded (the directory is closed to the user in between).
\* Every entry is lstat'ed before rglob reads it, so the records show the
\* access times from before the walk.
Scan ==
    /\ pc = "scan"
    /\ \E root_ok \in BOOLEAN :
         LET seen == IF root_ok THEN tree ELSE [tree EXCEPT ![root].ok = FALSE]
             after == AfterWalk(tree, host, root, args.include_hidden, Now(run))
             r == scan_directory(seen, host, root, args.include_hidden)
         IN  IF r.exit
             THEN /\ log' = log \cup {"error: cannot access root directory"}
                  /\ exit_code' = <<1>>
                  /\ pc' = "exited"
                  /\ UNCHANGED <<tree, results>>
             ELSE /\ results' = r.items
                  /\ tree' = after
                  /\ log' = log \cup WalkWarnings(tree, root, args.include_hidden)
                  /\ pc' = "write"
                  /\ UNCHANGED exit_code
    /\ UNCHANGED <<host, args, root, output_path, opened, run, history>>
    /\ UNCHANGED <<cleanVars, outVars>>

\* main(), lines 201-216.  Opening the file or writing to it may raise OSError.
Write ==
    /\ pc = "write"
    /\ LET target == OpenTarget(tree, args.cwd, output_path) IN
       /\ opened' = opened \cup {target}
       /\ \E outcome \in {"written", "open fails", "dump fails"} :
            /\ outcome # "open fails" => CanOpen(tree, target)
            /\ tree' = IF outcome = "open fails" THEN tree
                       ELSE WriteFile(tree, target, Now(run))
            /\ IF outcome = "written"
               THEN /\ log' = log \cup {"info: wrote output"}
                    /\ exit_code' = <<0>>
                    /\ history' = Append(history, Envelope(root, Now(run), results))
               ELSE /\ log' = log \cup {"error: failed to write output file"}
                    /\ exit_code' = <<1>>
                    /\ history' = history
    /\ pc' = "exited"
    /\ UNCHANGED <<host, args, root, output_path, results, run>>
    /\ UNCHANGED <<cleanVars, outVars>>

NextScan ==
    \/ \E parent \in DOMAIN tree, name \in EntryNames, e \in Profiles :
         CreateEntry(parent, name, e)
    \/ \E cwd \in Cwds, root_dir \in RootDirArgs, include_hidden \in BOOLEAN,
          output \in OutputArgs :
         Invoke(cwd, root_dir, include_hidden, output)
    \/ Validate
    \/ Scan
    \/ Write
    \/ Rerun

SpecScan == InitScan /\ [][NextScan]_vars


(***************************************************************************)
(* clean_pycache.py.  ctree maps a path relative to / to "dir" or "file".  *)
(***************************************************************************)
Below(t, dir) == {p \in DOMAIN t : IsPrefix(dir, p) /\ p # dir}

IsDir(t, p) == p \in DOMAIN t /\ t[p] = "dir"

\* shutil.rmtree: the directory and everything below it are gone.
RmTree(t, dir) == [p \in DOMAIN t \ ({dir} \cup Below(t, dir)) |-> t[p]]

\* The directories the recursive glob descends into from `dir`.
Subdirs(t, dir) ==
    SetToSeq({p \in DOMAIN t : Len(p) = Len(dir) + 1 /\ IsPrefix(dir, p) /\ t[p] = "dir"})

\* Variant: the dry run is not honoured by the loop.
LoopDeletesInDryRun(dry) == TRUE

\* The test that guards the deletion in the loop (line 79, negated).
LoopDeletes(dry) == ~dry

\* What the call returns (lines 90-109).
ReturnValue(dry, found, deleted) == IF dry THEN found ELSE deleted

InitClean ==
    /\ ctree = (<<>> :> "dir")
    /\ cpc = "setup"
    /\ clean_root = <<>>
    /\ dry_run = FALSE
    /\ stack = <<>>
    /\ pycache_folders_found = 0
    /\ pycache_folders_deleted = 0
    /\ rmtree_failed = FALSE
    /\ returned = <<>>
    /\ tree0 = <<>>
    /\ ScanQuiet
    /\ OutQuiet

\* Before the tool is called: somebody creates a file or a directory.
CreateCacheEntry(parent, name, kind) ==
    /\ cpc = "setup"
    /\ Cardinality(DOMAIN ctree) - 1 < MaxCacheEntries
    /\ IsDir(ctree, parent)
    /\ Append(parent, name) \notin DOMAIN ctree
    /\ ctree' = (Append(parent, name) :> kind) @@ ctree
    /\ UNCHANGED <<cpc, clean_root, dry_run, stack, pycache_folders_found,
                   pycache_folders_deleted, rmtree_failed, returned, tree0>>
    /\ UNCHANGED <<scanVars, outVars>>

\* clean_pycache(directory, dry), lines 61-72.  A call follows another only
\* after a dry run.
CleanCall(directory, dry) ==
    /\ cpc \in {"setup", "idle"}
    /\ IF returned = <<>> THEN TRUE ELSE Last(returned).dry_run
    /\ clean_root' = directory
    /\ dry_run' = dry
    /\ tree0' = ctree
    /\ pycache_folders_found' = 0
    /\ pycache_folders_deleted' = 0
    /\ rmtree_failed' = FALSE
    /\ IF IsDir(ctree, directory)
       THEN /\ stack' = <<directory>>
            /\ cpc' = "loop"
            /\ returned' = returned
       ELSE /\ stack' = <<>>
            /\ cpc' = "idle"
            /\ returned' = (IF returned = <<>> THEN <<>> ELSE <<Last(returned)>>)
                           \o <<[root_dir |-> directory, dry_run |-> dry,
                                 count |-> 0, failed |-> FALSE,
                                 before |-> ctree, after |-> ctree]>>
    /\ UNCHANGED ctree
    /\ UNCHANGED <<scanVars, outVars>>

\* One step of `for pycache_dir in root_dir.rglob("__pycache__")`, lines 75-88.
\* The generator visits the directory on top of its stack: it yields the
\* directory's __pycache__ entry if there is one, the loop body runs, and only
\* then does the generator list the directory for the subdirectories to visit.
Iterate ==
    /\ cpc = "loop"
    /\ stack # <<>>
    /\ LET dir == Head(stack)
           pycache_dir == Append(dir, NamePycache)
           counted == IsDir(ctree, pycache_dir)
       IN  /\ pycache_folders_found' = pycache_folders_found + (IF counted THEN 1 ELSE 0)
           /\ IF counted /\ LoopDeletes(dry_run)
              THEN \E raised \in BOOLEAN, partly \in BOOLEAN :
                     /\ partly => raised
                     /\ ctree' = IF ~raised THEN RmTree(ctree, pycache_dir)
                                 ELSE IF partly
                                 THEN [p \in DOMAIN ctree \ Below(ctree, pycache_dir) |-> ctree[p]]
                                 ELSE ctree
                     /\ pycache_folders_deleted' =
                            pycache_folders_deleted + (IF raised THEN 0 ELSE 1)
                     /\ rmtree_failed' = (rmtree_failed \/ raised)
              ELSE UNCHANGED <<ctree, pycache_folders_deleted, rmtree_failed>>
           /\ stack' = Subdirs(ctree', dir) \o Tail(stack)
    /\ UNCHANGED <<cpc, clean_root, dry_run, returned, tree0>>
    /\ UNCHANGED <<scanVars, outVars>>

\* Lines 90-109: the generator is exhausted and the call returns.
CleanReturn ==
    /\ cpc = "loop"
    /\ stack = <<>>
    /\ cpc' = "idle"
    /\ returned' = (IF returned = <<>> THEN <<>> ELSE <<Last(returned)>>)
                   \o <<[root_dir |-> clean_root,
                         dry_run |-> dry_run,
                         count |-> ReturnValue(dry_run, pycache_folders_found,
                                               pycache_folders_deleted),
                         failed |-> rmtree_failed,
                         before |-> tree0, after |-> ctree]>>
    /\ UNCHANGED <<ctree, clean_root, dry_run, stack, pycache_folders_found,
                   pycache_folders_deleted, rmtree_failed, tree0>>
    /\ UNCHANGED <<scanVars, outVars>>

NextClean ==
    \/ \E parent \in DOMAIN ctree, name \in CacheNames, kind \in {"dir", "file"} :
         CreateCacheEntry(parent, name, kind)
    \/ \E directory \in DOMAIN ctree \cup {<<NameM>>}, dry \in BOOLEAN :
         CleanCall(directory, dry)
    \/ Iterate
    \/ CleanReturn

SpecClean == InitClean /\ [][NextClean]_vars

(***************************************************************************)
(* The output path of the three tools that write a file.                   *)
(***************************************************************************)
TreeSuffix == <<"_", "t", "r", "e", "e", ".", "m", "d">>

\* directory_tree_to_md.py, main(): output_path (lines 83-88).
TreeOutputPath(directory, output) ==
    IF output # None THEN output
    ELSE [abs |-> FALSE, parts |-> <<PathName(directory.parts) \o TreeSuffix>>]

\* ascii_directory_tree_to_md.py, main(): output_path (lines 87-92).
AsciiTreeOutputPath(directory, output) ==
    IF output # None THEN output
    ELSE [abs |-> FALSE, parts |-> <<PathName(directory.parts) \o TreeSuffix>>]

\* root.exists() and root.is_dir() of the tree tools (both follow symlinks).
TreeRootCheck(t, cwd, directory) ==
    LET ap == Resolve(t, cwd, directory)
    IN  IF LStat(t, ap) = None THEN "error: not found"
        ELSE IF ~is_dir(t, ap) THEN "error: not a directory"
        ELSE "ok"

Tools == {"scanner", "directory_tree_to_md", "ascii_directory_tree_to_md"}
OutCwds == {<<>>, <<NameW>>, RootAbs}
OutDirArgs == RootDirArgs \cup {[abs |-> FALSE, parts |-> <<NameR>>],
                                [abs |-> TRUE, parts |-> RootAbs]}
OutOutputArgs == OutputArgs \cup {[abs |-> TRUE, parts |-> <<NameW, NameO>>]}

InitOut ==
    /\ tool \in Tools
    /\ oargs \in [cwd : OutCwds, directory : OutDirArgs, output : OutOutputArgs]
    /\ opath = None
    /\ ScanQuiet
    /\ CleanQuiet

\* scanner.py, main(), lines 187-196.
ScannerMain ==
    /\ tool = "scanner"
    /\ opath = None
    /\ LET rootp == Resolve(tree, oargs.cwd, oargs.directory) IN
       opath' = IF RootCheck(tree, rootp) = "error"
                THEN [status |-> "exit 1", path |-> None]
                ELSE [status |-> "open",
                      path |-> ScannerOutputPath(rootp, oargs.output)]
    /\ UNCHANGED <<tool, oargs>>
    /\ UNCHANGED <<scanVars, cleanVars>>

\* directory_tree_to_md.py, main(), lines 73-88.
DirectoryTreeMain ==
    /\ tool = "directory_tree_to_md"
    /\ opath = None
    /\ opath' = IF TreeRootCheck(tree, oargs.cwd, oargs.directory) # "ok"
                THEN [status |-> "exit 1", path |-> None]
                ELSE [status |-> "open",
                      path |-> TreeOutputPath(oargs.directory, oargs.output)]
    /\ UNCHANGED <<tool, oargs>>
    /\ UNCHANGED <<scanVars, cleanVars>>

\* ascii_directory_tree_to_md.py, main(), lines 76-92.
AsciiTreeMain ==
    /\ tool = "ascii_directory_tree_to_md"
    /\ opath = None
    /\ opath' = IF TreeRootCheck(tree, oargs.cwd, oargs.directory) # "ok"
                THEN [status |-> "exit 1", path |-> None]
                ELSE [status |-> "open",
                      path |-> AsciiTreeOutputPath(oargs.directory, oargs.output)]
    /\ UNCHANGED <<tool, oargs>>
    /\ UNCHANGED <<scanVars, cleanVars>>

NextOut == ScannerMain \/ DirectoryTreeMain \/ AsciiTreeMain

SpecOut == InitOut /\ [][NextOut]_vars

(***************************************************************************)
(* Claims about scanner.py                                                 *)
(***************************************************************************)
\* scan_directory has returned in the current run.
ScanReturned == pc = "write" \/ (pc = "exited" /\ opened # {})

\* The root named on the command line, and the file the output goes to.
RootOf == Resolve(tree, args.cwd, args.root_dir)
Descendants == {p \in DOMAIN tree : IsPrefix(RootOf, p) /\ p # RootOf}
RelPosix(p) == as_posix(SubSeq(p, Len(RootOf) + 1, Len(p)))
ItemPaths == {results[i].path : i \in 2..Len(results)}

\* A "/"-separated path with a segment that begins with a dot.
HasHiddenSegment(s) ==
    s[1] = "." \/ \E i \in 1..(Len(s) - 1) : s[i] = "/" /\ s[i + 1] = "."

\* C1: whenever scan_directory has returned, the first item has path "." and
\* no other item has.
C1_RootFirstAndUnique ==
    ScanReturned =>
        /\ Len(results) >= 1
        /\ results[1].path = <<".">>
        /\ \A i \in 2..Len(results) : results[i].path # <<".">>

C1_Witness ==
    /\ ScanReturned
    /\ Len(results) >= 3
    /\ args.include_hidden

\* C2: in every item, size_bytes and extension are present exactly on files,
\* symlink_target (the target's path or None) exactly on symlinks.
C2_OptionalKeysByType ==
    \A i \in 1..Len(results) :
        LET r == results[i] IN
        /\ "size_bytes" \in DOMAIN r <=> r.type = "file"
        /\ "extension" \in DOMAIN r <=> r.type = "file"
        /\ "symlink_target" \in DOMAIN r <=> r.type = "symlink"
        /\ r.type = "symlink" => (r.symlink_target = None \/ Head(r.symlink_target) = "/")
        /\ r.type \in {"folder", "file", "symlink", "unknown"}

C2_Witness ==
    /\ ScanReturned
    /\ \E i, j \in 1..Len(results) :
         /\ results[i].type = "file" /\ results[i].extension = <<"t">>
         /\ results[j].type = "symlink" /\ results[j].symlink_target = None

\* C3: without include_hidden the items are exactly the descendants no
\* segment of whose relative path begins with a dot; with include_hidden
\* those descendants are recorded as well (an entry whose lstat fails has no
\* record either way).
C3_HiddenFilter ==
    pc = "write" =>
        ItemPaths = {RelPosix(p) : p \in {q \in Descendants :
                        /\ LStat(tree, q) # None
                        /\ args.include_hidden \/ ~HasHiddenSegment(RelPosix(q))}}

C3_Witness ==
    /\ pc = "write"
    /\ ~args.include_hidden
    /\ RootOf = RootAbs
    /\ <<NameW, NameR, NameHidden, NameUpper>> \in DOMAIN tree
    /\ tree[<<NameW, NameR, NameHidden, NameUpper>>].ok
    /\ Len(results) = 1

\* C4: a descendant whose lstat fails is left out and every other descendant
\* that is not skipped has its record; the process ends with status 1 only
\* after one of the fatal errors (root rejected, root inaccessible, output
\* not written).
C4_EntryFailuresNotFatal ==
    /\ pc = "write" =>
         \A p \in Descendants :
            \/ Skipped(RelativeParts(p, RootOf), args.include_hidden)
            \/ (LStat(tree, p) = None) = (RelPosix(p) \notin ItemPaths)
    /\ exit_code = <<1>> =>
         log \cap {"error: not a directory or symlink",
                   "error: cannot access root directory",
                   "error: failed to write output file"} # {}
    /\ pc \in {"scan", "write"} => exit_code = None

C4_Witness ==
    /\ pc = "exited"
    /\ exit_code = <<0>>
    /\ \E p, q \in Descendants :
         /\ ~tree[p].ok
         /\ tree[q].ok /\ tree[q].fmt = "S_IFLNK" /\ ~tree[q].readable
         /\ RelPosix(q) \in ItemPaths
    /\ "warning: cannot lstat" \in log

\* C5: a root that is missing or is no directory ends the run with status 1
\* and an error, and no output file is opened; an output file is opened only
\* after the root was accepted and scan_directory returned.
RootIsDirectory ==
    RootOf \in DOMAIN tree /\ tree[RootOf].fmt = "S_IFDIR"

C5_MissingRootFatalNoOutput ==
    /\ (pc \in {"scan", "write", "exited"} /\ ~RootIsDirectory) =>
          /\ pc = "exited"
          /\ exit_code = <<1>>
          /\ \E m \in log : m = "error: not a directory or symlink"
          /\ opened = {}
    /\ opened # {} =>
          /\ "info: scanning" \in log
          /\ Len(results) >= 1

C5_Witness ==
    /\ pc = "exited"
    /\ args.root_dir.parts = <<NameM>>
    /\ exit_code = <<1>>
    /\ opened = {}

\* C6 (as claimed): a root given as a symlink to a directory is scanned, and
\* the warning that the root is a symlink is logged before the scan starts.
RootArgIsSymlinkToDir ==
    LET given == IF args.root_dir.abs THEN args.root_dir.parts
                 ELSE args.cwd \o args.root_dir.parts
    IN  /\ given \in DOMAIN tree
        /\ tree[given].fmt = "S_IFLNK"
        /\ RootIsDirectory

C6_SymlinkRootWarned ==
    (pc \in {"scan", "write", "exited"} /\ RootArgIsSymlinkToDir) =>
        /\ "warning: root is a symlink to a directory" \in log
        /\ "error: not a directory or symlink" \notin log

\* C7 (as claimed): two successive runs of the same command line yield the
\* same items.
C7_Idempotent ==
    \A i \in 1..(Len(history) - 1) : history[i].items = history[i + 1].items

\* C7 (amended): they do, and the outputs differ in timestamp_utc at most,
\* when the output file lies outside the scanned tree and the host does not
\* refresh access times on the directories and symlinks the scan reads.
OutputOutsideTree ==
    IF args.output = None
    THEN RootOf # <<>>
    ELSE ~IsPrefix(RootOf, ResolveFrom(tree, <<>>,
                     IF args.output.abs THEN args.output.parts
                     ELSE args.cwd \o args.output.parts))

C7_IdempotentOutsideTree ==
    (Len(history) >= 2 /\ OutputOutsideTree /\ ~host.atime_updates) =>
        \A i \in 1..(Len(history) - 1) :
            /\ history[i].items = history[i + 1].items
            /\ [history[i] EXCEPT !.timestamp_utc = None]
                 = [history[i + 1] EXCEPT !.timestamp_utc = None]

C7_Witness ==
    /\ Len(history) >= 2
    /\ OutputOutsideTree
    /\ ~host.atime_updates
    /\ Len(history[1].items) >= 3



(***************************************************************************)
(* Claims about clean_pycache.py                                           *)
(***************************************************************************)
PycacheDirs(t) == {p \in DOMAIN t : p # <<>> /\ Last(p) = NamePycache /\ t[p] = "dir"}

\* C9: a call with dry_run true leaves the file system as it found it, so
\* every __pycache__ directory present before the call is present after it.
C9_DryRunChangesNothing ==
    /\ (cpc = "loop" /\ dry_run) => ctree = tree0
    /\ \A i \in 1..Len(returned) :
          returned[i].dry_run =>
             /\ returned[i].after = returned[i].before
             /\ PycacheDirs(returned[i].before) \subseteq PycacheDirs(returned[i].after)

C9_Witness ==
    /\ returned # <<>>
    /\ Last(returned).dry_run
    /\ Last(returned).count >= 2
    /\ cpc = "idle"

\* C10 (as claimed): on the same tree the dry run returns the count the real
\* run returns when every deletion succeeds.
C10_DryRunCountIsDeletedCount ==
    (Len(returned) >= 2
       /\ returned[1].dry_run /\ ~returned[2].dry_run
       /\ returned[1].root_dir = returned[2].root_dir
       /\ returned[1].before = returned[2].before
       /\ ~returned[2].failed)
    => returned[1].count = returned[2].count


(***************************************************************************)
(* Claims about the output path                                            *)
(***************************************************************************)
\* The file open() acts on, the directory it lies in and its name.
OutTarget == OpenTarget(tree, oargs.cwd, opath.path)
\* The scanned directory with the symlinks followed, and its own name.
OutRoot == ResolveFrom(tree, <<>>, IF oargs.directory.abs THEN oargs.directory.parts
                                   ELSE oargs.cwd \o oargs.directory.parts)
ToolSuffix == IF tool = "scanner" THEN JsonSuffix ELSE TreeSuffix
Opens == opath # None /\ opath.status = "open"

====
